---- MODULE Spec2Model ----
(***************************************************************************)
(* Statistics and time-range filtering of the poker tracker front end:     *)
(* Dashboard.svelte, Charts.svelte, BankrollChart.svelte and               *)
(* SessionTable.svelte.                                                    *)
(*                                                                         *)
(* NUMBERS.  The front end computes with JavaScript numbers (IEEE-754      *)
(* binary64).  Every number that occurs here is a multiple of 2^-Q, so a   *)
(* number x is kept EXACTLY as a record [n, dev] with                      *)
(*                                                                         *)
(*        x  =  (n * 2^Q + dev) / (Den * 2^Q)                              *)
(*                                                                         *)
(* n / Den is the decimal value the number stands for (n = 3 * cents for   *)
(* money, n = 5 * minutes for hours) and dev is the deviation of the       *)
(* binary64 value from it, in units of 1 / (Den * 2^Q).  dev = 0 iff the   *)
(* number is exactly the decimal value.  Rounding to 53 significant bits   *)
(* (round-to-nearest, ties-to-even) is computed on this representation     *)
(* with modular arithmetic, so all intermediate integers stay small.       *)
(***************************************************************************)
EXTENDS Integers, Sequences, FiniteSets, TLC

\* ------------------------------------------------------------------------
\* Bounds of the model
\* ------------------------------------------------------------------------
MaxSessions == 3

\* API requests that can be in flight at a time
MaxInFlight == 2

\* session ids the server hands out while the Dashboard is followed
MaxIds == 2

\* ------------------------------------------------------------------------
\* binary64 arithmetic
\* ------------------------------------------------------------------------
Q == 59
Den == 300
Mantissa == 53

RECURSIVE Pow2Mod(_)
Pow2Mod(j) == IF j = 0 THEN 1 ELSE (2 * Pow2Mod(j - 1)) % Den

RECURSIVE Log2Floor(_)
Log2Floor(i) == IF i <= 1 THEN 0 ELSE 1 + Log2Floor(i \div 2)

RECURSIVE NegLog2(_, _)
\* smallest j >= 0 with i * 2^j >= Den, for 0 < i
NegLog2(i, j) == IF i >= Den THEN j ELSE NegLog2(2 * i, j + 1)

\* Binary exponent E of the magnitude (n * 2^Q + dev) / (Den * 2^Q), n > 0:
\* 2^E <= magnitude < 2^(E+1).
Binade(n, dev) ==
  LET e0 == IF n >= Den THEN Log2Floor(n \div Den) ELSE -NegLog2(n, 0)
      onPower == IF e0 >= 0 THEN n = Den * (2 ^ e0) ELSE n * (2 ^ (-e0)) = Den
  IN  IF onPower /\ dev < 0 THEN e0 - 1 ELSE e0

\* T mod (Den * 2^k) for T = n * 2^Q + dev and 0 <= k <= Q
ModUlp(n, dev, k) ==
  LET m == ((n % Den) * Pow2Mod(Q - k)) % Den
  IN  ((2 ^ k) * m + dev) % (Den * (2 ^ k))

\* Rounding of a non-negative exact value to binary64.
RoundMagnitude(n, dev) ==
  IF n = 0 THEN [n |-> 0, dev |-> dev]
  ELSE
    LET k == Binade(n, dev) - (Mantissa - 1) + Q
    IN  IF k <= 0 THEN [n |-> n, dev |-> dev]
        ELSE
          LET ulp  == Den * (2 ^ k)
              r    == ModUlp(n, dev, k)
              r2   == ModUlp(n, dev, k + 1)
              down == [n |-> n, dev |-> dev - r]
              up   == [n |-> n, dev |-> dev + (ulp - r)]
          IN  IF 2 * r < ulp THEN down
              ELSE IF 2 * r > ulp THEN up
              ELSE IF r2 = r THEN down ELSE up

IsNegative(x) == x.n < 0 \/ (x.n = 0 /\ x.dev < 0)

Negate(x) == [n |-> -x.n, dev |-> -x.dev]

\* Round-to-nearest, ties-to-even, of the exact value (n, dev).
Round(n, dev) ==
  IF IsNegative([n |-> n, dev |-> dev])
  THEN Negate(RoundMagnitude(-n, -dev))
  ELSE RoundMagnitude(n, dev)

Zero == [n |-> 0, dev |-> 0]

Add(x, y) == Round(x.n + y.n, x.dev + y.dev)

Sub(x, y) == Round(x.n - y.n, x.dev - y.dev)

Less(x, y) == x.n < y.n \/ (x.n = y.n /\ x.dev < y.dev)

\* ------------------------------------------------------------------------
\* Dates (ECMAScript Date): time values are counted in hours
\* ------------------------------------------------------------------------
HoursPerDay == 24

IsLeap(y) == (y % 4 = 0 /\ y % 100 # 0) \/ y % 400 = 0

\* ECMAScript DayFromYear: day number of 1 January of year y (1970 -> 0)
DayFromYear(y) ==
  365 * (y - 1970) + ((y - 1969) \div 4) - ((y - 1901) \div 100)
                   + ((y - 1601) \div 400)

\* days before the first of month m0 (0-based) in year y
DaysBeforeMonth(y, m0) ==
  LET cum == <<0, 31, 59, 90, 120, 151, 181, 212, 243, 273, 304, 334>>
  IN  cum[m0 + 1] + (IF m0 >= 2 /\ IsLeap(y) THEN 1 ELSE 0)

DaysInMonth(y, m0) ==
  LET len == <<31, 28, 31, 30, 31, 30, 31, 31, 30, 31, 30, 31>>
  IN  len[m0 + 1] + (IF m0 = 1 /\ IsLeap(y) THEN 1 ELSE 0)

\* ECMAScript MakeDay(year, month, date): month and date may lie outside
\* their ranges and overflow into the neighbouring months and years.
MakeDay(year, month, date) ==
  LET ym == year + (month \div 12)
      mn == month % 12
  IN  DayFromYear(ym) + DaysBeforeMonth(ym, mn) + date - 1

\* new Date("YYYY-MM-DD"): a date-only string is midnight UTC
DateParse(sd) == MakeDay(sd.y, sd.m - 1, sd.d) * HoursPerDay

\* ECMAScript YearFromTime, MonthFromTime and DateFromTime, on day numbers
YearFromDay(day) ==
  CHOOSE y \in 1970..2100 : DayFromYear(y) <= day /\ day < DayFromYear(y + 1)

MonthFromDay(day) ==
  LET y == YearFromDay(day)
  IN  CHOOSE m0 \in 0..11 :
        /\ DayFromYear(y) + DaysBeforeMonth(y, m0) <= day
        /\ day < DayFromYear(y) + DaysBeforeMonth(y, m0) + DaysInMonth(y, m0)

DateFromDay(day) ==
  LET y == YearFromDay(day)
  IN  day - (DayFromYear(y) + DaysBeforeMonth(y, MonthFromDay(day))) + 1

\* toISOString().split('T')[0] of a day: the session_date string
DateString(day) ==
  [y |-> YearFromDay(day), m |-> MonthFromDay(day) + 1, d |-> DateFromDay(day)]

\* The clock holds the local wall-clock fields of new Date() and the zone
\* offset (local = UTC + tz); a local time value as a UTC time value:
LocalToUTC(localHours, tz) == localHours - tz

\* ------------------------------------------------------------------------
\* Session records (PokerSession).  Amounts are the decimal strings of the
\* API, kept as their number of cents; profit is the optional number field.
\* ------------------------------------------------------------------------
\* JSON number of a two-decimal value
NumberOfCents(c) == [present |-> TRUE, value |-> Round(3 * c, 0)]

NoProfit == [present |-> FALSE, value |-> Zero]

\* Text is a sequence of characters
Comma == ","
Quote == "\""
Newline == "\n"

\* notes?: string, the free text of a session, here fixed by the session
NotesOf(id) ==
  CASE id = 1 -> <<"o", "l", "d">>
    [] id = 2 -> <<"a", Comma, "b">>
    [] id = 3 -> <<>>
    [] id = 4 -> <<"a", Quote, "b", Quote>>
    [] id = 5 -> <<"a", Newline, "b">>
    [] id = 6 -> <<Comma, Quote>>
    [] OTHER  -> <<"1", "0">>

Ses(id, y, m, d, dur, buy, rebuy, cash, profit) ==
  [id |-> id, session_date |-> [y |-> y, m |-> m, d |-> d],
   duration_minutes |-> dur, buy_in_amount |-> buy, rebuy_amount |-> rebuy,
   cash_out_amount |-> cash, profit |-> profit, notes |-> NotesOf(id)]

SessionPool ==
  { Ses(1, 2024, 3, 24, 180, 10000, 5000, 30000, NumberOfCents(15000)),
    Ses(2, 2024, 3, 1, 60, 10, 20, 30, NumberOfCents(0)),
    Ses(3, 2024, 3, 30, 90, 10010, 0, 15020, NoProfit),
    Ses(4, 2024, 3, 30, 0, 20000, 5000, 18000, NumberOfCents(-7000)),
    Ses(5, 2023, 2, 28, 120, 0, 0, 10, NumberOfCents(10)),
    Ses(6, 2024, 4, 15, 10, 0, 0, 20, NumberOfCents(20)),
    Ses(7, 2023, 12, 31, 0, 10000, 0, 5000, NoProfit) }

Clocks ==
  { [year |-> 2024, month |-> 2, date |-> 31, hours |-> 12, tz |-> 0],
    [year |-> 2024, month |-> 1, date |-> 29, hours |-> 0, tz |-> 0],
    [year |-> 2024, month |-> 4, date |-> 31, hours |-> 18, tz |-> -5],
    [year |-> 2024, month |-> 0, date |-> 5, hours |-> 9, tz |-> 0],
    [year |-> 2023, month |-> 2, date |-> 30, hours |-> 12, tz |-> 0],
    [year |-> 2024, month |-> 11, date |-> 31, hours |-> 0, tz |-> -5] }

Ids(ss) == { ss[i].id : i \in DOMAIN ss }

\* the session lists the server can hold: distinct sessions, any order
RECURSIVE Collections(_)
Collections(k) ==
  IF k = 0 THEN { <<>> }
  ELSE LET shorter == Collections(k - 1)
       IN  shorter \cup
           { Append(ss, s) : ss \in { c \in shorter : Len(c) = k - 1 },
                             s \in SessionPool }

SessionLists ==
  { ss \in Collections(MaxSessions) : Cardinality(Ids(ss)) = Len(ss) }

\* ------------------------------------------------------------------------
\* SessionTable.svelte
\* ------------------------------------------------------------------------
parseFloat(cents) == Round(3 * cents, 0)

calculateProfit(session) ==
  LET buyIn   == parseFloat(session.buy_in_amount)
      rebuy   == parseFloat(session.rebuy_amount)
      cashOut == parseFloat(session.cash_out_amount)
  IN  Sub(cashOut, Add(buyIn, rebuy))

\* ------------------------------------------------------------------------
\* Dashboard.svelte / Charts.svelte: the reactive statistics
\* ------------------------------------------------------------------------
\* s.profit || 0
ProfitOrZero(s) == IF s.profit.present THEN s.profit.value ELSE Zero

\* duration_minutes / 60
HoursOf(s) == Round(5 * s.duration_minutes, 0)

RECURSIVE ReduceProfit(_, _)
\* sessions.reduce((sum, s) => sum + (s.profit || 0), 0)
ReduceProfit(ss, sum) ==
  IF ss = <<>> THEN sum
  ELSE ReduceProfit(Tail(ss), Add(sum, ProfitOrZero(Head(ss))))

RECURSIVE ReduceHours(_, _)
\* sessions.reduce((sum, s) => sum + s.duration_minutes / 60, 0)
ReduceHours(ss, sum) ==
  IF ss = <<>> THEN sum
  ELSE ReduceHours(Tail(ss), Add(sum, HoursOf(Head(ss))))

totalProfit(ss) == ReduceProfit(ss, Zero)

totalSessions(ss) == Len(ss)

totalHours(ss) == ReduceHours(ss, Zero)

\* x / y: the quotient of two numbers is kept as the pair it is formed
\* from; a zero divisor gives NaN or an infinity as in IEEE-754.
Div(x, y) ==
  IF y # Zero THEN [kind |-> "finite", num |-> x, den |-> y]
  ELSE IF x = Zero THEN [kind |-> "NaN", num |-> x, den |-> y]
  ELSE [kind |-> "Infinity", num |-> x, den |-> y]

\* the literal '0.00' of the Hourly Rate card
ZeroRate == [kind |-> "zero", num |-> Zero, den |-> Zero]

\* totalHours.toFixed(1) of the Total Hours card, as its number of tenths:
\* the tenth nearest to the number, the larger one of two equally near
totalHoursTenths(ss) ==
  LET h    == totalHours(ss)
      tens == (10 * h.n) \div Den
      rest == (10 * h.n) % Den
  IN  IF 2 * rest > Den \/ (2 * rest = Den /\ h.dev >= 0)
      THEN tens + 1 ELSE tens

\* the Hourly Rate card dividing by the hours as the Total Hours card shows
\* them
hourlyRateFromCard(ss) ==
  IF Less(Zero, totalHours(ss))
  THEN Div(totalProfit(ss), Round(30 * totalHoursTenths(ss), 0))
  ELSE ZeroRate

\* the Hourly Rate card without its guard
hourlyRateUnguarded(ss) == Div(totalProfit(ss), totalHours(ss))

\* totalHours > 0 ? (totalProfit / totalHours).toFixed(2) : '0.00'
hourlyRate(ss) ==
  IF Less(Zero, totalHours(ss))
  THEN Div(totalProfit(ss), totalHours(ss))
  ELSE ZeroRate

\* ------------------------------------------------------------------------
\* BankrollChart.svelte
\* ------------------------------------------------------------------------
TimeRanges == {"week", "month", "quarter", "year", "all"}

\* the switch statement with the month and quarter cases exchanged
CutoffLocalSwapped(range, now) ==
  LET day == CASE range = "week"    -> MakeDay(now.year, now.month, now.date - 7)
               [] range = "month"   -> MakeDay(now.year, now.month - 3, now.date)
               [] range = "quarter" -> MakeDay(now.year, now.month - 1, now.date)
               [] range = "year"    -> MakeDay(now.year - 1, now.month, now.date)
               [] OTHER             -> MakeDay(now.year, now.month, now.date)
  IN  day * HoursPerDay + now.hours

\* the local time value of cutoffDate after the switch statement
CutoffLocal(range, now) ==
  LET day == CASE range = "week"    -> MakeDay(now.year, now.month, now.date - 7)
               [] range = "month"   -> MakeDay(now.year, now.month - 1, now.date)
               [] range = "quarter" -> MakeDay(now.year, now.month - 3, now.date)
               [] range = "year"    -> MakeDay(now.year - 1, now.month, now.date)
               [] OTHER             -> MakeDay(now.year, now.month, now.date)
  IN  day * HoursPerDay + now.hours

filterSessionsByTimeRange(ss, range, now) ==
  IF range = "all" THEN ss
  ELSE LET cutoffDate == LocalToUTC(CutoffLocal(range, now), now.tz)
           Keep(s) == DateParse(s.session_date) >= cutoffDate
       IN  SelectSeq(ss, Keep)

RECURSIVE InsertUnstable(_, _)
\* an insertion that puts s in front of the elements it compares equal to
InsertUnstable(sorted, s) ==
  IF sorted = <<>> THEN <<s>>
  ELSE IF DateParse(Head(sorted).session_date) - DateParse(s.session_date) >= 0
       THEN <<s>> \o sorted
       ELSE <<Head(sorted)>> \o InsertUnstable(Tail(sorted), s)

RECURSIVE InsertStable(_, _)
\* s goes behind every element that does not compare greater than it
InsertStable(sorted, s) ==
  IF sorted = <<>> THEN <<s>>
  ELSE IF DateParse(Head(sorted).session_date) - DateParse(s.session_date) > 0
       THEN <<s>> \o sorted
       ELSE <<Head(sorted)>> \o InsertStable(Tail(sorted), s)

RECURSIVE SortByDate(_)
\* [...filteredSessions].sort((a, b) => time(a) - time(b)), a stable sort
SortByDate(ss) ==
  IF ss = <<>> THEN <<>>
  ELSE InsertStable(SortByDate(SubSeq(ss, 1, Len(ss) - 1)), ss[Len(ss)])

\* new Date(session_date).toLocaleDateString(): the local calendar day of
\* the parsed instant, kept as its day number
LocaleDate(sd, now) == (DateParse(sd) + now.tz) \div HoursPerDay

RECURSIVE Walk(_, _, _)
\* sorted.forEach: runningTotal += profit; push label and runningTotal
Walk(sorted, runningTotal, now) ==
  IF sorted = <<>> THEN <<>>
  ELSE LET session == Head(sorted)
           buyIn   == parseFloat(session.buy_in_amount)
           rebuy   == parseFloat(session.rebuy_amount)
           cashOut == parseFloat(session.cash_out_amount)
           profit  == Sub(cashOut, Add(buyIn, rebuy))
           total   == Add(runningTotal, profit)
       IN  <<[label |-> LocaleDate(session.session_date, now),
              data |-> total]>> \o Walk(Tail(sorted), total, now)

calculateChartData(filtered, now) ==
  IF Len(filtered) = 0 THEN <<>>
  ELSE Walk(SortByDate(filtered), Zero, now)

\* ------------------------------------------------------------------------
\* State
\* ------------------------------------------------------------------------
VARIABLES
  db,               \* the user's sessions as the server stores them
  clock,            \* what new Date() returns
  net,              \* the API requests in flight, oldest first
  route,            \* the mounted page
  dSessions, dLoading, dError,             \* Dashboard.svelte
  showForm, editingSession,                \* Dashboard.svelte, the form
  fLoading, fError, fields,                \* SessionForm.svelte
  cSessions, cLoading, cError,             \* Charts.svelte
  timeRange, filteredSessions,             \* BankrollChart.svelte
  storage, authStore,                      \* localStorage 'token', auth.ts
  exporting, alerted, download,            \* Dashboard.svelte, CSV export
  isReady,                                 \* App.svelte
  themeItem, themeInitial, themeValue,     \* localStorage 'theme', theme.ts
  dataTheme                                \* data-theme of the document

vars == <<db, clock, net, route, dSessions, dLoading, dError, showForm,
          editingSession, fLoading, fError, cSessions, cLoading, cError,
          timeRange, filteredSessions, storage, authStore, exporting,
          alerted, download, fields, isReady, themeItem, themeInitial,
          themeValue, dataTheme>>

serverVars == <<db, clock>>
dashVars == <<dSessions, dLoading, dError>>
formVars == <<showForm, editingSession, fLoading, fError, fields>>
chartsVars == <<cSessions, cLoading, cError>>
chartVars == <<timeRange, filteredSessions>>
authVars == <<storage, authStore>>
exportVars == <<exporting, alerted, download>>
themeVars == <<themeItem, themeInitial, themeValue, dataTheme>>
appVars == <<isReady, themeVars>>

LoadError == "Failed to load sessions"

\* the responses api.sessions.getAll() can resolve to
Responses == { [error |-> "", data |-> db],
               [error |-> LoadError, data |-> <<>>] }

NoResponse == [error |-> "", data |-> <<>>]

\* apiRequest(...) up to its await fetch: a request of `kind`, issued by
\* the function `from`, with the sessions `arg` it is about; live tells
\* whether the component instance that awaits it still exists (for the
\* reload of handleSave: the form instance whose 'save' event started it)
Request(kind, from, arg) ==
  [kind |-> kind, from |-> from, arg |-> arg, stage |-> "sent",
   live |-> TRUE, response |-> NoResponse]

RemoveAt(seq, k) == SubSeq(seq, 1, k - 1) \o SubSeq(seq, k + 1, Len(seq))

\* the SessionForm is destroyed: the submissions it awaits, and the reload
\* its 'save' event started, go on without it
Detach(requests) ==
  [j \in DOMAIN requests |->
     IF \/ requests[j].kind \in {"create", "update"}
        \/ requests[j].from = "handleSave"
     THEN [requests[j] EXCEPT !.live = FALSE]
     ELSE requests[j]]

Answered(k, kinds) ==
  k \in DOMAIN net /\ net[k].stage = "answered" /\ net[k].kind \in kinds

\* <BankrollChart {sessions} /> exists
chartMounted == route = "charts" /\ ~cLoading /\ Len(cSessions) # 0

\* what the Dashboard renders below its toolbar: the loading line, or the
\* SessionTable with its empty state or its rows
DashboardView ==
  IF dLoading THEN "loading"
  ELSE IF Len(dSessions) = 0 THEN "empty-state" ELSE "table"

\* Charts without its {:else if sessions.length === 0} branch
ChartsViewAlwaysChart == IF cLoading THEN "loading" ELSE "chart"

\* what Charts renders below the cards
ChartsView ==
  IF cLoading THEN "loading"
  ELSE IF Len(cSessions) = 0 THEN "empty-state" ELSE "chart"

\* [...filteredSessions].sort(...) in calculateChartData, called by
\* renderChart: the array that is sorted is a copy, the array
\* filteredSessions is afterwards what it was
AfterRenderChartInPlace(filtered) ==
  IF Len(filtered) = 0 THEN filtered ELSE SortByDate(filtered)

AfterRenderChart(filtered) == filtered

\* the state of a freshly created SessionForm, and of no form
NoForm ==
  /\ showForm' = FALSE /\ editingSession' = <<>>
  /\ fLoading' = FALSE /\ fError' = "" /\ fields' = <<>>

\* the application shows the freshly mounted Dashboard of a logged-in user
InitPages ==
  /\ route = "dashboard"
  /\ net = <<Request("getAll", "onMount", <<>>)>>
  /\ dSessions = <<>> /\ dLoading = TRUE /\ dError = ""
  /\ showForm = FALSE /\ editingSession = <<>>
  /\ fLoading = FALSE /\ fError = ""
  /\ cSessions = <<>> /\ cLoading = TRUE /\ cError = ""
  /\ timeRange = "all" /\ filteredSessions = <<>>
  /\ storage = <<"token-1">>
  /\ authStore = [user |-> <<>>, token |-> <<"token-1">>,
                  isAuthenticated |-> TRUE]
  /\ exporting = FALSE /\ alerted = "" /\ download = <<>>
  /\ fields = <<>> /\ isReady = TRUE
  /\ themeItem = <<"light">> /\ themeInitial = "light"
  /\ themeValue = "light" /\ dataTheme = <<"light">>

Init ==
  /\ db \in SessionLists
  /\ clock \in Clocks
  /\ InitPages

\* GET /api/sessions is answered: with the sessions stored at that moment,
\* or with an error
ServerGetAll(k) ==
  /\ k \in DOMAIN net /\ net[k].stage = "sent" /\ net[k].kind = "getAll"
  /\ \E response \in Responses :
       net' = [net EXCEPT ![k].stage = "answered", ![k].response = response]
  /\ UNCHANGED <<serverVars, route, dashVars, formVars, chartsVars,
                 chartVars, authVars, exportVars, appVars>>

\* Dashboard is mounted: its script block and onMount -> loadSessions up to
\* the await.  The model follows a page change only while no mutation is in
\* flight; the requests of the page that is left are followed no further.
MountDashboard ==
  /\ route # "dashboard"
  /\ \A k \in DOMAIN net : net[k].kind = "getAll"
  /\ route' = "dashboard"
  /\ net' = <<Request("getAll", "onMount", <<>>)>>
  /\ dSessions' = <<>> /\ dLoading' = TRUE /\ dError' = ""
  /\ NoForm
  /\ cSessions' = <<>> /\ cLoading' = TRUE /\ cError' = ""
  /\ timeRange' = "all" /\ filteredSessions' = <<>>
  /\ UNCHANGED <<serverVars, authVars, exportVars, appVars>>

\* a loadSessions that adds the received sessions to those it holds
DashLoadCompleteMerging(k) ==
  /\ route = "dashboard"
  /\ Answered(k, {"getAll"})
  /\ dLoading' = FALSE
  /\ IF net[k].response.error # ""
     THEN dError' = net[k].response.error /\ UNCHANGED dSessions
     ELSE dSessions' = dSessions \o net[k].response.data /\ UNCHANGED dError
  /\ IF net[k].from = "handleSave"
     THEN /\ NoForm
          /\ net' = Detach(RemoveAt(net, k))
     ELSE /\ UNCHANGED formVars
          /\ net' = RemoveAt(net, k)
  /\ UNCHANGED <<serverVars, route, chartsVars, chartVars, authVars, exportVars, appVars>>

\* Dashboard loadSessions after the await; the call made by handleSave
\* goes on with handleCloseForm()
DashLoadComplete(k) ==
  /\ route = "dashboard"
  /\ Answered(k, {"getAll"})
  /\ dLoading' = FALSE
  /\ IF net[k].response.error # ""
     THEN dError' = net[k].response.error /\ UNCHANGED dSessions
     ELSE dSessions' = net[k].response.data /\ UNCHANGED dError
  /\ IF net[k].from = "handleSave"
     THEN /\ NoForm
          /\ net' = Detach(RemoveAt(net, k))
     ELSE /\ UNCHANGED formVars
          /\ net' = RemoveAt(net, k)
  /\ UNCHANGED <<serverVars, route, chartsVars, chartVars, authVars, exportVars, appVars>>

\* Charts is mounted: onMount -> loadSessions up to the await
MountCharts ==
  /\ route # "charts"
  /\ \A k \in DOMAIN net : net[k].kind = "getAll"
  /\ route' = "charts"
  /\ net' = <<Request("getAll", "charts", <<>>)>>
  /\ cSessions' = <<>> /\ cLoading' = TRUE /\ cError' = ""
  /\ dSessions' = <<>> /\ dLoading' = TRUE /\ dError' = ""
  /\ NoForm
  /\ timeRange' = "all" /\ filteredSessions' = <<>>
  /\ UNCHANGED <<serverVars, authVars, exportVars, appVars>>

\* Charts loadSessions after the await; when sessions were received the
\* chart component is created with timeRange = 'all', for which
\* filteredSessions is the array `sessions` itself, and it renders
ChartsLoadComplete(k) ==
  /\ route = "charts"
  /\ Answered(k, {"getAll"})
  /\ net' = RemoveAt(net, k)
  /\ cLoading' = FALSE
  /\ timeRange' = "all"
  /\ IF net[k].response.error # ""
     THEN /\ cError' = net[k].response.error
          /\ UNCHANGED cSessions
          /\ filteredSessions' = filterSessionsByTimeRange(cSessions, "all", clock)
     ELSE /\ UNCHANGED cError
          /\ filteredSessions' = AfterRenderChart(
               filterSessionsByTimeRange(net[k].response.data, "all", clock))
          /\ cSessions' = filteredSessions'
  /\ UNCHANGED <<serverVars, route, dashVars, formVars, authVars, exportVars, appVars>>

\* a click on one of the time-range buttons: the reactive statement filters
\* and afterUpdate renders
SelectTimeRange(range) ==
  /\ chartMounted
  /\ timeRange # range
  /\ timeRange' = range
  /\ filteredSessions' = AfterRenderChart(
       filterSessionsByTimeRange(cSessions, range, clock))
  /\ cSessions' = IF range = "all" THEN filteredSessions' ELSE cSessions
  /\ UNCHANGED <<serverVars, net, route, dashVars, formVars, cLoading, cError,
                 authVars, exportVars, appVars>>

Next ==
  \/ \E k \in DOMAIN net : ServerGetAll(k)
  \/ MountDashboard
  \/ \E k \in DOMAIN net : DashLoadComplete(k)
  \/ MountCharts
  \/ \E k \in DOMAIN net : ChartsLoadComplete(k)
  \/ \E range \in TimeRanges : SelectTimeRange(range)

Spec == Init /\ [][Next]_vars

\* ------------------------------------------------------------------------
\* The Dashboard with its form and its delete buttons, and the server
\* behind POST, PUT and DELETE /api/sessions
\* ------------------------------------------------------------------------
CreateError == "Failed to create session"
DeleteError == "Delete failed"

\* what a user enters into the form: the fields of a session of the pool
FormInputs == { s \in SessionPool : s.id = 6 }

\* the session with the fields of input and the given id
Stored(id, input) == [input EXCEPT !.id = id]

\* ids are never used again: the ids free for a new session are those that
\* occur nowhere, neither on the server nor in a page nor in flight
FreshIds ==
  (1..MaxIds) \
    ( Ids(db) \cup Ids(dSessions) \cup Ids(editingSession)
      \cup UNION { Ids(net[k].arg) \cup Ids(net[k].response.data) :
                   k \in DOMAIN net } )

Answer(k, error, data) ==
  [net EXCEPT ![k].stage = "answered",
              ![k].response = [error |-> error, data |-> data]]

\* POST /api/sessions is answered
ServerCreate(k) ==
  /\ k \in DOMAIN net /\ net[k].stage = "sent" /\ net[k].kind = "create"
  /\ \E accepted \in BOOLEAN :
       IF accepted /\ FreshIds # {}
       THEN LET id == CHOOSE i \in FreshIds : \A j \in FreshIds : i <= j
                s  == Stored(id, net[k].arg[1])
            IN  /\ db' = Append(db, s)
                /\ net' = Answer(k, "", <<s>>)
       ELSE /\ db' = db
            /\ net' = Answer(k, CreateError, <<>>)
  /\ UNCHANGED <<clock, route, dashVars, formVars, chartsVars, chartVars,
                 authVars, exportVars, appVars>>

\* PUT /api/sessions/{id} is answered
ServerUpdate(k) ==
  /\ k \in DOMAIN net /\ net[k].stage = "sent" /\ net[k].kind = "update"
  /\ \E accepted \in BOOLEAN :
       IF accepted /\ net[k].arg[1].id \in Ids(db)
       THEN /\ db' = [i \in DOMAIN db |->
                        IF db[i].id = net[k].arg[1].id
                        THEN net[k].arg[1] ELSE db[i]]
            /\ net' = Answer(k, "", net[k].arg)
       ELSE /\ db' = db
            /\ net' = Answer(k, CreateError, <<>>)
  /\ UNCHANGED <<clock, route, dashVars, formVars, chartsVars, chartVars,
                 authVars, exportVars, appVars>>

\* DELETE /api/sessions/{id} is answered
ServerDelete(k) ==
  /\ k \in DOMAIN net /\ net[k].stage = "sent" /\ net[k].kind = "delete"
  /\ \E accepted \in BOOLEAN :
       IF accepted /\ net[k].arg[1].id \in Ids(db)
       THEN /\ db' = SelectSeq(db, LAMBDA s : s.id # net[k].arg[1].id)
            /\ net' = Answer(k, "", <<>>)
       ELSE /\ db' = db
            /\ net' = Answer(k, DeleteError, <<>>)
  /\ UNCHANGED <<clock, route, dashVars, formVars, chartsVars, chartVars,
                 authVars, exportVars, appVars>>

\* the fields of a form opened without a session: today's date (UTC), zero
\* amounts and duration, no notes
FormBlank ==
  LET now == LocalToUTC(MakeDay(clock.year, clock.month, clock.date)
                          * HoursPerDay + clock.hours, clock.tz)
      sd  == DateString(now \div HoursPerDay)
  IN  [Ses(0, sd.y, sd.m, sd.d, 0, 0, 0, 0, NoProfit) EXCEPT !.notes = <<>>]

\* the fields a form starts with: those of its session, or the blank ones
FormInitial(session) == IF session # <<>> THEN session ELSE <<FormBlank>>

\* the Add Session button
handleAddNew ==
  /\ route = "dashboard" /\ ~showForm
  /\ editingSession' = <<>>
  /\ showForm' = TRUE
  /\ fLoading' = FALSE /\ fError' = "" /\ fields' = FormInitial(<<>>)
  /\ UNCHANGED <<serverVars, net, route, dashVars, chartsVars, chartVars,
                 authVars, exportVars, appVars>>

\* the edit button of the i-th row of the table
handleEdit(i) ==
  /\ route = "dashboard" /\ ~showForm
  /\ DashboardView = "table" /\ i \in DOMAIN dSessions
  /\ editingSession' = <<dSessions[i]>>
  /\ showForm' = TRUE
  /\ fLoading' = FALSE /\ fError' = ""
  /\ fields' = FormInitial(<<dSessions[i]>>)
  /\ UNCHANGED <<serverVars, net, route, dashVars, chartsVars, chartVars,
                 authVars, exportVars, appVars>>

\* on:cancel of the form
handleCloseForm ==
  /\ route = "dashboard" /\ showForm
  /\ NoForm
  /\ net' = Detach(net)
  /\ UNCHANGED <<serverVars, route, dashVars, chartsVars, chartVars,
                 authVars, exportVars, appVars>>

\* the user types into the form (bind:value): the fields become those of
\* input
inputFields(input) ==
  /\ route = "dashboard" /\ showForm
  /\ fields' = <<Stored(fields[1].id, input)>>
  /\ fields' # fields
  /\ UNCHANGED <<serverVars, net, route, dashVars, showForm, editingSession,
                 fLoading, fError, chartsVars, chartVars, authVars,
                 exportVars, appVars>>

\* SessionForm handleSubmit up to its await, with the fields as they are;
\* the submit button is disabled while loading, and the browser submits
\* only a duration of at least 1 (min="1" required)
handleSubmit ==
  /\ route = "dashboard" /\ showForm /\ ~fLoading
  /\ fields[1].duration_minutes >= 1
  /\ Len(net) < MaxInFlight
  /\ fError' = ""
  /\ fLoading' = TRUE
  /\ net' = Append(net,
       IF editingSession # <<>>
       THEN Request("update", "handleSubmit",
                    <<Stored(editingSession[1].id, fields[1])>>)
       ELSE Request("create", "handleSubmit", fields))
  /\ UNCHANGED <<serverVars, route, dashVars, showForm, editingSession,
                 fields, chartsVars, chartVars, authVars, exportVars,
                 appVars>>

\* handleSave and handleDelete without their call of loadSessions
loadSessionsSkipped(others, from, mounted) ==
  /\ net' = others
  /\ UNCHANGED dashVars

\* a load that leaves the previous error message in place
loadSessionsKeepingError(others, from, mounted) ==
  /\ dLoading' = TRUE
  /\ net' = Append(others, [Request("getAll", from, <<>>)
                              EXCEPT !.live = mounted])
  /\ UNCHANGED <<dSessions, dError>>

\* Dashboard loadSessions, called by handleSave and handleDelete, up to its
\* await; `others` are the requests that stay in flight, `mounted` tells
\* whether the component whose event started the load still exists
loadSessions(others, from, mounted) ==
  /\ dLoading' = TRUE
  /\ dError' = ""
  /\ net' = Append(others, [Request("getAll", from, <<>>)
                              EXCEPT !.live = mounted])
  /\ UNCHANGED dSessions

\* SessionForm handleSubmit after its await; dispatch('save') calls
\* handleSave, which runs up to the await in loadSessions
\* a form that dispatches 'save' whatever the response was
SubmitCompleteAlwaysSaving(k) ==
  /\ route = "dashboard"
  /\ Answered(k, {"create", "update"})
  /\ fLoading' = IF net[k].live THEN FALSE ELSE fLoading
  /\ fError' = IF net[k].live THEN net[k].response.error ELSE fError
  /\ loadSessions(RemoveAt(net, k), "handleSave", net[k].live)
  /\ UNCHANGED <<serverVars, route, showForm, editingSession, fields,
                 chartsVars, chartVars, authVars, exportVars, appVars>>

SubmitComplete(k) ==
  /\ route = "dashboard"
  /\ Answered(k, {"create", "update"})
  /\ fLoading' = IF net[k].live THEN FALSE ELSE fLoading
  /\ IF net[k].response.error # ""
     THEN /\ fError' = IF net[k].live THEN net[k].response.error ELSE fError
          /\ net' = RemoveAt(net, k)
          /\ UNCHANGED dashVars
     ELSE /\ UNCHANGED fError
          /\ loadSessions(RemoveAt(net, k), "handleSave", net[k].live)
  /\ UNCHANGED <<serverVars, route, showForm, editingSession, fields,
                 chartsVars, chartVars, authVars, exportVars, appVars>>

\* the delete button of the i-th row, up to the await: confirm(...) is
\* answered by the user, and a dismissed confirmation ends the handler
handleDelete(i, confirmed) ==
  /\ route = "dashboard" /\ ~showForm
  /\ DashboardView = "table" /\ i \in DOMAIN dSessions
  /\ Len(net) < MaxInFlight
  /\ net' = IF confirmed
            THEN Append(net, Request("delete", "handleDelete",
                                     <<dSessions[i]>>))
            ELSE net
  /\ UNCHANGED <<serverVars, route, dashVars, formVars, chartsVars, chartVars,
                 authVars, exportVars, appVars>>

\* handleDelete after its first await, calling loadSessions also when the
\* delete was refused
DeleteCompleteReloading(k) ==
  /\ route = "dashboard"
  /\ Answered(k, {"delete"})
  /\ alerted' = IF net[k].response.error # "" THEN net[k].response.error
                ELSE alerted
  /\ loadSessions(RemoveAt(net, k), "handleDelete", TRUE)
  /\ UNCHANGED <<serverVars, route, formVars, chartsVars, chartVars,
                 authVars, exporting, download, appVars>>

\* handleDelete after its first await: alert(response.error), or
\* loadSessions up to its await
DeleteComplete(k) ==
  /\ route = "dashboard"
  /\ Answered(k, {"delete"})
  /\ IF net[k].response.error # ""
     THEN /\ alerted' = net[k].response.error
          /\ net' = RemoveAt(net, k)
          /\ UNCHANGED dashVars
     ELSE /\ UNCHANGED alerted
          /\ loadSessions(RemoveAt(net, k), "handleDelete", TRUE)
  /\ UNCHANGED <<serverVars, route, formVars, chartsVars, chartVars,
                 authVars, exporting, download, appVars>>

\* a user with no, one or two sessions opens the Dashboard
DashboardLists ==
  LET a == CHOOSE s \in SessionPool : s.id = 3
      b == CHOOSE s \in SessionPool : s.id = 6
  IN  { <<>>, <<Stored(1, a)>>, <<Stored(2, b), Stored(1, a)>> }

InitDashboard ==
  /\ db \in DashboardLists
  /\ clock \in { c \in Clocks : c.year = 2024 /\ c.month = 2 }
  /\ InitPages

NextDashboard ==
  \/ \E k \in DOMAIN net : ServerGetAll(k)
  \/ \E k \in DOMAIN net : DashLoadComplete(k)
  \/ handleAddNew
  \/ \E i \in DOMAIN dSessions : handleEdit(i)
  \/ handleCloseForm
  \/ \E input \in FormInputs : inputFields(input)
  \/ handleSubmit
  \/ \E k \in DOMAIN net : ServerCreate(k)
  \/ \E k \in DOMAIN net : ServerUpdate(k)
  \/ \E k \in DOMAIN net : SubmitComplete(k)
  \/ \E i \in DOMAIN dSessions, confirmed \in BOOLEAN :
       handleDelete(i, confirmed)
  \/ \E k \in DOMAIN net : ServerDelete(k)
  \/ \E k \in DOMAIN net : DeleteComplete(k)

SpecDashboard == InitDashboard /\ [][NextDashboard]_vars

\* the Dashboard in use, and the user moving between it and the Charts page
NextSite ==
  \/ NextDashboard
  \/ MountCharts
  \/ \E k \in DOMAIN net : ChartsLoadComplete(k)
  \/ MountDashboard

SpecSite == InitDashboard /\ [][NextSite]_vars

\* ------------------------------------------------------------------------
\* CSV export.  GET /api/sessions/export?range=... answers with the text
\* to_csv builds from the sessions of the window: a header row, then one
\* row per session, in the order of the collection.
\* ------------------------------------------------------------------------
DigitChars == <<"0", "1", "2", "3", "4", "5", "6", "7", "8", "9">>

Digit(d) == DigitChars[d + 1]

RECURSIVE Digits(_)
Digits(n) ==
  IF n < 10 THEN <<Digit(n)>> ELSE Append(Digits(n \div 10), Digit(n % 10))

TwoDigits(n) == <<Digit(n \div 10), Digit(n % 10)>>

\* a number of hundredths with exactly two fractional digits
FixedTwo(hundredths) ==
  LET magnitude == IF hundredths < 0 THEN -hundredths ELSE hundredths
  IN  (IF hundredths < 0 THEN <<"-">> ELSE <<>>)
        \o Digits(magnitude \div 100) \o <<".">> \o TwoDigits(magnitude % 100)

\* session_date as YYYY-MM-DD
formatDate(sd) ==
  Digits(sd.y) \o <<"-">> \o TwoDigits(sd.m) \o <<"-">> \o TwoDigits(sd.d)

\* duration_minutes / 60 as a decimal, to the nearest hundredth (a multiple
\* of 1/60 is never halfway between two hundredths)
formatHours(minutes) == FixedTwo((minutes * 100 + 30) \div 60)

\* profit = cash_out_amount - (buy_in_amount + rebuy_amount), in cents
profit(s) == s.cash_out_amount - (s.buy_in_amount + s.rebuy_amount)

RECURSIVE DoubleQuotes(_)
DoubleQuotes(text) ==
  IF text = <<>> THEN <<>>
  ELSE (IF Head(text) = Quote THEN <<Quote, Quote>> ELSE <<Head(text)>>)
         \o DoubleQuotes(Tail(text))

\* a field is written as it is
csvFieldRaw(text) == text

\* a field holding a comma, a double quote or a newline is wrapped in
\* double quotes, its own double quotes doubled
csvField(text) ==
  IF \E i \in DOMAIN text : text[i] \in {Comma, Quote, Newline}
  THEN <<Quote>> \o DoubleQuotes(text) \o <<Quote>>
  ELSE text

csvHeader ==
  <<"D", "a", "t", "e", Comma, "D", "u", "r", "a", "t", "i", "o", "n", " ",
    "(", "h", "o", "u", "r", "s", ")", Comma, "B", "u", "y", "-", "i", "n",
    Comma, "R", "e", "b", "u", "y", Comma, "C", "a", "s", "h", " ", "O",
    "u", "t", Comma, "P", "r", "o", "f", "i", "t", "/", "L", "o", "s", "s",
    Comma, "N", "o", "t", "e", "s">>

csvRow(s) ==
  formatDate(s.session_date) \o <<Comma>>
    \o formatHours(s.duration_minutes) \o <<Comma>>
    \o FixedTwo(s.buy_in_amount) \o <<Comma>>
    \o FixedTwo(s.rebuy_amount) \o <<Comma>>
    \o FixedTwo(s.cash_out_amount) \o <<Comma>>
    \o FixedTwo(profit(s)) \o <<Comma>>
    \o csvField(s.notes)

RECURSIVE csvRows(_)
csvRows(sessions) ==
  IF sessions = <<>> THEN <<>>
  ELSE csvRow(Head(sessions)) \o <<Newline>> \o csvRows(Tail(sessions))

to_csv(sessions) == csvHeader \o <<Newline>> \o csvRows(sessions)

\* the export's windows: 'all', or the sessions dated N days (one year)
\* back from today or later
ExportRanges == {"7days", "30days", "90days", "1year", "all"}

ExportStart(range, now) ==
  CASE range = "7days"  -> MakeDay(now.year, now.month, now.date - 7)
    [] range = "30days" -> MakeDay(now.year, now.month, now.date - 30)
    [] range = "90days" -> MakeDay(now.year, now.month, now.date - 90)
    [] range = "1year"  -> MakeDay(now.year - 1, now.month, now.date)

ExportFilter(sessions, range, now) ==
  IF range = "all" THEN sessions
  ELSE SelectSeq(sessions,
         LAMBDA s : DateParse(s.session_date)
                      >= ExportStart(range, now) * HoursPerDay)

ExportError == "Failed to export sessions"

\* the server answers an export request: with the CSV text of the window's
\* sessions, or with an error
ServerExport(k) ==
  /\ k \in DOMAIN net /\ net[k].stage = "sent" /\ net[k].kind = "export"
  /\ \E accepted \in BOOLEAN :
       IF accepted
       THEN net' = Answer(k, "", to_csv(ExportFilter(db, net[k].arg, clock)))
       ELSE net' = Answer(k, ExportError, <<>>)
  /\ UNCHANGED <<serverVars, route, dashVars, formVars, chartsVars,
                 chartVars, authVars, exportVars, appVars>>

\* handleExport(timeRange) up to the await; the export button is disabled
\* while exporting or loading
handleExport(range) ==
  /\ route = "dashboard" /\ ~exporting /\ ~dLoading
  /\ Len(net) < MaxInFlight
  /\ exporting' = TRUE
  /\ net' = Append(net, Request("export", "handleExport", range))
  /\ UNCHANGED <<serverVars, route, dashVars, formVars, chartsVars,
                 chartVars, authVars, alerted, download, appVars>>

\* handleExport after the await: alert(response.error), or the response is
\* downloaded as poker-sessions-${timeRange}.csv
ExportComplete(k) ==
  /\ Answered(k, {"export"})
  /\ exporting' = FALSE
  /\ net' = RemoveAt(net, k)
  /\ IF net[k].response.error # ""
     THEN alerted' = net[k].response.error /\ UNCHANGED download
     ELSE /\ download' = <<[range |-> net[k].arg,
                            content |-> net[k].response.data]>>
          /\ UNCHANGED alerted
  /\ UNCHANGED <<serverVars, route, dashVars, formVars, chartsVars,
                 chartVars, authVars, appVars>>

InitExport ==
  /\ db \in SessionLists
  /\ clock \in { c \in Clocks : c.year = 2024 /\ c.month = 2 }
  /\ InitPages

NextExport ==
  \/ \E k \in DOMAIN net : ServerGetAll(k)
  \/ \E k \in DOMAIN net : DashLoadComplete(k)
  \/ \E range \in ExportRanges : handleExport(range)
  \/ \E k \in DOMAIN net : ServerExport(k)
  \/ \E k \in DOMAIN net : ExportComplete(k)

SpecExport == InitExport /\ [][NextExport]_vars

\* ------------------------------------------------------------------------
\* stores/auth.ts and its callers: App.svelte (onMount), Login.svelte,
\* Register.svelte, Navigation.svelte and CookieConsent.svelte.  A token or
\* a user that is null is the empty sequence.  The pages' own requests are
\* not followed here.
\* ------------------------------------------------------------------------
\* the tokens the server issues (never the empty string)
Tokens == {"token-1", "token-2"}

Users == [id : {1, 2}, cookie_consent : BOOLEAN]

InvalidToken == "Invalid token"

LoginError == "Invalid credentials"

\* !!localStorage.getItem('token')
Truthy(item) == item # <<>> /\ item[1] # ""

\* the store as writable<AuthState>(...) creates it
createAuthStore ==
  /\ authStore' = [user |-> <<>>, token |-> storage,
                   isAuthenticated |-> Truthy(storage)]
  /\ UNCHANGED storage

login(token, user) ==
  /\ storage' = <<token>>
  /\ authStore' = [user |-> <<user>>, token |-> <<token>>,
                   isAuthenticated |-> TRUE]

\* logout that leaves localStorage as it is
logoutStoreOnly ==
  /\ authStore' = [user |-> <<>>, token |-> <<>>, isAuthenticated |-> FALSE]
  /\ UNCHANGED storage

logout ==
  /\ storage' = <<>>
  /\ authStore' = [user |-> <<>>, token |-> <<>>, isAuthenticated |-> FALSE]

updateUser(user) ==
  /\ authStore' = [authStore EXCEPT !.user = <<user>>]
  /\ UNCHANGED storage

\* stores/theme.ts.  An item of localStorage or an attribute that is absent
\* is the empty sequence.
Themes == {"light", "dark"}

\* stored || 'light'
OrLight(item) == IF item # <<>> /\ item[1] # "" THEN item[1] ELSE "light"

\* the store as createThemeStore creates it
createThemeStore ==
  /\ themeInitial' = OrLight(themeItem)
  /\ themeValue' = OrLight(themeItem)
  /\ UNCHANGED <<themeItem, dataTheme>>

\* themeStore.set(theme)
themeStoreSet(theme) ==
  /\ themeItem' = <<theme>>
  /\ dataTheme' = <<theme>>
  /\ themeValue' = theme
  /\ UNCHANGED themeInitial

\* initial === 'light' ? 'dark' : 'light', the theme toggle() sets
toggleValue == IF themeInitial = "light" THEN "dark" ELSE "light"

\* themeStore.toggle(): the writable's own set, with the opposite of the
\* theme the store was created with
themeStoreToggle ==
  /\ themeValue' = toggleValue
  /\ UNCHANGED <<themeItem, themeInitial, dataTheme>>

pageVars == <<dashVars, formVars, chartsVars, chartVars, exportVars>>

\* the page is loaded (again): the modules create the stores, App's onMount
\* sets the saved theme (or light) and asks /auth/me when the store is
\* authenticated, and is ready at once when it is not; what the page
\* before had in flight is gone
pageLoad ==
  /\ createAuthStore
  /\ themeInitial' = OrLight(themeItem)
  /\ themeValue' = OrLight(themeItem)
  /\ themeItem' = <<OrLight(themeItem)>>
  /\ dataTheme' = <<OrLight(themeItem)>>
  /\ isReady' = ~Truthy(storage)
  /\ route' = IF Truthy(storage) THEN "dashboard" ELSE "login"
  /\ net' = IF Truthy(storage) THEN <<Request("getMe", "App", <<>>)>>
            ELSE <<>>
  /\ UNCHANGED <<serverVars, pageVars>>

\* GET /api/auth/me is answered: with the user, or the token is refused
ServerGetMe(k) ==
  /\ k \in DOMAIN net /\ net[k].stage = "sent" /\ net[k].kind = "getMe"
  /\ \/ \E user \in Users : net' = Answer(k, "", <<user>>)
     \/ net' = Answer(k, InvalidToken, <<>>)
  /\ UNCHANGED <<serverVars, route, pageVars, authVars, appVars>>

\* onMount after the await, without the call of updateUser
GetMeCompleteNoUser(k) ==
  /\ Answered(k, {"getMe"})
  /\ net' = RemoveAt(net, k)
  /\ IF net[k].response.data # <<>>
     THEN UNCHANGED authVars
     ELSE logout
  /\ isReady' = TRUE
  /\ UNCHANGED <<serverVars, route, pageVars, themeVars>>

\* App.svelte onMount after the await
GetMeComplete(k) ==
  /\ Answered(k, {"getMe"})
  /\ net' = RemoveAt(net, k)
  /\ IF net[k].response.data # <<>>
     THEN updateUser(net[k].response.data[1])
     ELSE logout
  /\ isReady' = TRUE
  /\ UNCHANGED <<serverVars, route, pageVars, themeVars>>

\* Login.svelte handleSubmit (Register.svelte alike) up to the await
submitLogin ==
  /\ isReady /\ ~authStore.isAuthenticated
  /\ Len(net) < MaxInFlight
  /\ \A k \in DOMAIN net : net[k].kind # "login"
  /\ net' = Append(net, Request("login", "Login", <<>>))
  /\ UNCHANGED <<serverVars, route, pageVars, authVars, appVars>>

\* POST /api/auth/login is answered: with a token and the user, or refused
ServerLogin(k) ==
  /\ k \in DOMAIN net /\ net[k].stage = "sent" /\ net[k].kind = "login"
  /\ \/ \E token \in Tokens, user \in Users :
          net' = Answer(k, "", <<[token |-> token, user |-> user]>>)
     \/ net' = Answer(k, LoginError, <<>>)
  /\ UNCHANGED <<serverVars, route, pageVars, authVars, appVars>>

\* handleSubmit after the await: authStore.login(token, user); the reload
\* it asks for is pageLoad
LoginComplete(k) ==
  /\ Answered(k, {"login"})
  /\ net' = RemoveAt(net, k)
  /\ IF net[k].response.error = "" /\ net[k].response.data # <<>>
     THEN login(net[k].response.data[1].token, net[k].response.data[1].user)
     ELSE UNCHANGED authVars
  /\ UNCHANGED <<serverVars, route, pageVars, appVars>>

\* Navigation.svelte handleLogout; the reload it asks for is pageLoad
handleLogout ==
  /\ isReady /\ authStore.isAuthenticated
  /\ logout
  /\ UNCHANGED <<serverVars, net, route, pageVars, appVars>>

\* CookieConsent.svelte acceptCookies up to the await
acceptCookies ==
  /\ isReady /\ authStore.isAuthenticated
  /\ Len(net) < MaxInFlight
  /\ \A k \in DOMAIN net : net[k].kind # "consent"
  /\ net' = Append(net, Request("consent", "acceptCookies", <<>>))
  /\ UNCHANGED <<serverVars, route, pageVars, authVars, appVars>>

\* PUT /api/auth/cookie-consent is answered: with the user, or refused
ServerConsent(k) ==
  /\ k \in DOMAIN net /\ net[k].stage = "sent" /\ net[k].kind = "consent"
  /\ \/ \E user \in { u \in Users : u.cookie_consent } :
          net' = Answer(k, "", <<user>>)
     \/ net' = Answer(k, InvalidToken, <<>>)
  /\ UNCHANGED <<serverVars, route, pageVars, authVars, appVars>>

\* acceptCookies after the await
ConsentComplete(k) ==
  /\ Answered(k, {"consent"})
  /\ net' = RemoveAt(net, k)
  /\ IF net[k].response.data # <<>>
     THEN updateUser(net[k].response.data[1])
     ELSE UNCHANGED authVars
  /\ UNCHANGED <<serverVars, route, pageVars, appVars>>

\* the page is opened with no token or with an earlier session's token
InitAuth ==
  /\ db = <<>>
  /\ clock \in { c \in Clocks : c.year = 2024 /\ c.month = 2 }
  /\ storage \in { <<>>, <<"token-1">> }
  /\ authStore = [user |-> <<>>, token |-> storage,
                  isAuthenticated |-> Truthy(storage)]
  /\ route = IF Truthy(storage) THEN "dashboard" ELSE "login"
  /\ net = IF Truthy(storage) THEN <<Request("getMe", "App", <<>>)>> ELSE <<>>
  /\ dSessions = <<>> /\ dLoading = TRUE /\ dError = ""
  /\ showForm = FALSE /\ editingSession = <<>>
  /\ fLoading = FALSE /\ fError = ""
  /\ cSessions = <<>> /\ cLoading = TRUE /\ cError = ""
  /\ timeRange = "all" /\ filteredSessions = <<>>
  /\ exporting = FALSE /\ alerted = "" /\ download = <<>>
  /\ fields = <<>> /\ isReady = ~Truthy(storage)
  /\ themeItem = <<"light">> /\ themeInitial = "light"
  /\ themeValue = "light" /\ dataTheme = <<"light">>

NextAuth ==
  \/ pageLoad
  \/ \E k \in DOMAIN net : ServerGetMe(k)
  \/ \E k \in DOMAIN net : GetMeComplete(k)
  \/ submitLogin
  \/ \E k \in DOMAIN net : ServerLogin(k)
  \/ \E k \in DOMAIN net : LoginComplete(k)
  \/ handleLogout
  \/ acceptCookies
  \/ \E k \in DOMAIN net : ServerConsent(k)
  \/ \E k \in DOMAIN net : ConsentComplete(k)

SpecAuth == InitAuth /\ [][NextAuth]_vars

\* ------------------------------------------------------------------------
\* The theme store with its callers: App.svelte (onMount, in pageLoad) and
\* Navigation.svelte (toggleTheme), and called as the store's tests call it
\* ------------------------------------------------------------------------
nonThemeVars == <<serverVars, net, route, pageVars, authVars, isReady>>

\* Navigation.svelte toggleTheme: set() with the opposite of the theme the
\* subscription last saw
toggleTheme ==
  /\ isReady
  /\ themeStoreSet(IF themeValue = "light" THEN "dark" ELSE "light")
  /\ UNCHANGED nonThemeVars

\* themeStore.set(theme) is called
callSet(theme) == themeStoreSet(theme) /\ UNCHANGED nonThemeVars

\* themeStore.toggle() is called
callToggle == themeStoreToggle /\ UNCHANGED nonThemeVars

\* the module stores/theme.ts is evaluated again
importThemeStore == createThemeStore /\ UNCHANGED nonThemeVars

\* the page is opened with no saved theme or with a saved one
InitTheme ==
  /\ db = <<>>
  /\ clock \in { c \in Clocks : c.year = 2024 /\ c.month = 2 }
  /\ storage \in { <<>>, <<"token-1">> }
  /\ authStore = [user |-> <<>>, token |-> storage,
                  isAuthenticated |-> Truthy(storage)]
  /\ route = IF Truthy(storage) THEN "dashboard" ELSE "login"
  /\ net = IF Truthy(storage) THEN <<Request("getMe", "App", <<>>)>> ELSE <<>>
  /\ dSessions = <<>> /\ dLoading = TRUE /\ dError = ""
  /\ showForm = FALSE /\ editingSession = <<>>
  /\ fLoading = FALSE /\ fError = "" /\ fields = <<>>
  /\ cSessions = <<>> /\ cLoading = TRUE /\ cError = ""
  /\ timeRange = "all" /\ filteredSessions = <<>>
  /\ exporting = FALSE /\ alerted = "" /\ download = <<>>
  /\ isReady = ~Truthy(storage)
  /\ \E saved \in { <<>>, <<"light">>, <<"dark">> } :
       /\ themeInitial = OrLight(saved)
       /\ themeValue = OrLight(saved)
       /\ themeItem = <<OrLight(saved)>>
       /\ dataTheme = <<OrLight(saved)>>

NextTheme ==
  \/ pageLoad
  \/ \E k \in DOMAIN net : ServerGetMe(k)
  \/ \E k \in DOMAIN net : GetMeComplete(k)
  \/ submitLogin
  \/ \E k \in DOMAIN net : ServerLogin(k)
  \/ \E k \in DOMAIN net : LoginComplete(k)
  \/ handleLogout
  \/ toggleTheme
  \/ \E theme \in Themes : callSet(theme)
  \/ callToggle
  \/ importThemeStore

SpecTheme == InitTheme /\ [][NextTheme]_vars

\* ------------------------------------------------------------------------
\* The same pages on every day of two years (one of them a leap year), at
\* midnight and at noon, with one session dated a few days around each
\* window start.
\* ------------------------------------------------------------------------
CalendarYears == {2023, 2024}

CalendarClocks ==
  UNION { { [year |-> y, month |-> m0, date |-> d, hours |-> h, tz |-> 0] :
              d \in 1..DaysInMonth(y, m0), h \in {0, 12} } :
          y \in CalendarYears, m0 \in 0..11 }

ProbeOffsets == (-1..9) \cup (26..33) \cup (86..94) \cup (363..368)

\* a session dated k days before the local day of now
ProbeSession(now, k) ==
  LET sd == DateString(MakeDay(now.year, now.month, now.date) - k)
  IN  Ses(1, sd.y, sd.m, sd.d, 60, 0, 0, 10, NumberOfCents(10))

InitCalendar ==
  /\ clock \in CalendarClocks
  /\ \E k \in ProbeOffsets : db = <<ProbeSession(clock, k)>>
  /\ InitPages

SpecCalendar == InitCalendar /\ [][Next]_vars

\* ------------------------------------------------------------------------
\* Reference values of the statistics, in exact decimal arithmetic
\* ------------------------------------------------------------------------
\* the number that is exactly c cents
Decimal(c) == [n |-> 3 * c, dev |-> 0]

ExactProfitCents(s) ==
  s.cash_out_amount - (s.buy_in_amount + s.rebuy_amount)

RECURSIVE SumProfitCents(_)
SumProfitCents(ss) ==
  IF ss = <<>> THEN 0 ELSE ExactProfitCents(Head(ss)) + SumProfitCents(Tail(ss))

RECURSIVE SumMinutes(_)
SumMinutes(ss) ==
  IF ss = <<>> THEN 0 ELSE Head(ss).duration_minutes + SumMinutes(Tail(ss))

\* the session list the mounted page holds
PageSessions == IF route = "dashboard" THEN dSessions ELSE cSessions

PageLoaded == IF route = "dashboard" THEN ~dLoading ELSE ~cLoading

PageView == IF route = "dashboard" THEN DashboardView ELSE ChartsView

PageError == IF route = "dashboard" THEN dError ELSE cError

\* ------------------------------------------------------------------------
\* C1: for every session shown in the session table, calculateProfit is
\* exactly cash_out - (buy_in + rebuy), and it is negative exactly when
\* cash_out < buy_in + rebuy.
\* ------------------------------------------------------------------------
C1_ProfitFormula ==
  \A i \in DOMAIN dSessions :
    LET s == dSessions[i]
    IN  /\ calculateProfit(s) = Decimal(ExactProfitCents(s))
        /\ IsNegative(calculateProfit(s)) <=> ExactProfitCents(s) < 0

\* ------------------------------------------------------------------------
\* C2: for every session a page holds, the profit of the table row, the
\* session's contribution to the Total Profit/Loss card and its increment
\* of the chart's running total are the same value.
\* ------------------------------------------------------------------------
C2_ProfitIdentical ==
  \A i \in DOMAIN PageSessions :
    LET s == PageSessions[i]
    IN  /\ calculateProfit(s) = ProfitOrZero(s)
        /\ calculateChartData(<<s>>, clock)[1].data = ProfitOrZero(s)

\* ------------------------------------------------------------------------
\* C3: for the session list a page holds, total_profit is the sum of
\* cash_out - (buy_in + rebuy) over its sessions and total_sessions is the
\* number of its sessions.
\* ------------------------------------------------------------------------
C3_TotalsAreSums ==
  /\ totalProfit(PageSessions) = Decimal(SumProfitCents(PageSessions))
  /\ totalSessions(PageSessions) = Len(PageSessions)

\* ------------------------------------------------------------------------
\* C4: the hourly rate is total_profit / total_hours when the sessions sum
\* to a positive duration and is the zero rate otherwise; it is never NaN
\* or an infinity.
\* ------------------------------------------------------------------------
C4_HourlyRateSafe ==
  LET rate == hourlyRate(PageSessions)
  IN  /\ rate.kind \notin {"NaN", "Infinity"}
      /\ SumMinutes(PageSessions) > 0 =>
           rate = [kind |-> "finite", num |-> totalProfit(PageSessions),
                   den |-> totalHours(PageSessions)]
      /\ SumMinutes(PageSessions) <= 0 => rate = ZeroRate

\* a page shows sessions that all have zero duration and a non-zero total
C4_Witness ==
  /\ PageLoaded /\ Len(PageSessions) > 0
  /\ SumMinutes(PageSessions) = 0
  /\ totalProfit(PageSessions) # Zero
  /\ hourlyRate(PageSessions) = ZeroRate

\* ------------------------------------------------------------------------
\* Reference window of the time-range filter
\* ------------------------------------------------------------------------
SessionDay(s) == MakeDay(s.session_date.y, s.session_date.m - 1, s.session_date.d)

Min(a, b) == IF a <= b THEN a ELSE b

\* the calendar day k months before the local day of now; a day that the
\* target month does not have is its last day
MonthsBefore(now, k) ==
  LET ym == now.year + ((now.month - k) \div 12)
      mn == (now.month - k) % 12
  IN  MakeDay(ym, mn, Min(now.date, DaysInMonth(ym, mn)))

WindowStartDay(range, now) ==
  CASE range = "week"    -> MakeDay(now.year, now.month, now.date) - 7
    [] range = "month"   -> MonthsBefore(now, 1)
    [] range = "quarter" -> MonthsBefore(now, 3)
    [] range = "year"    -> MonthsBefore(now, 12)

\* session_date >= window_start, both taken as calendar days
InWindowByDay(ss, range, now) ==
  IF range = "all" THEN ss
  ELSE LET Keep(s) == SessionDay(s) >= WindowStartDay(range, now)
       IN  SelectSeq(ss, Keep)

\* session_date >= window_start, both taken as instants
InWindowByInstant(ss, range, now) ==
  IF range = "all" THEN ss
  ELSE LET start == LocalToUTC(WindowStartDay(range, now) * HoursPerDay
                                 + now.hours, now.tz)
           Keep(s) == DateParse(s.session_date) >= start
       IN  SelectSeq(ss, Keep)

\* ------------------------------------------------------------------------
\* C5: the chart shows exactly the sessions with session_date >=
\* window_start, window_start being now - 7 days, - 1, - 3 calendar months
\* or - 1 calendar year; `all` shows every session.  The comparison may be
\* read on calendar days or on instants.
\* ------------------------------------------------------------------------
C5_FilterIsWindow ==
  chartMounted =>
    \/ filteredSessions = InWindowByDay(cSessions, timeRange, clock)
    \/ filteredSessions = InWindowByInstant(cSessions, timeRange, clock)

\* ------------------------------------------------------------------------
\* C6: a selector that is none of week, month, quarter, year, all is
\* treated as `all`: the filter returns the input collection unchanged.
\* ------------------------------------------------------------------------
UnknownSelectors == {"7days", "30days", "90days", "1year", ""}

C6_UnknownIsAll ==
  \A range \in UnknownSelectors :
    filterSessionsByTimeRange(cSessions, range, clock) = cSessions

\* ------------------------------------------------------------------------
\* C7: for the sessions of the Charts page and the current instant, the
\* filtered sets are nested, week within month within quarter within year
\* within all, and the filtered counts do not decrease along that sequence.
\* ------------------------------------------------------------------------
FilteredIds(range) == Ids(filterSessionsByTimeRange(cSessions, range, clock))

FilteredCount(range) == Len(filterSessionsByTimeRange(cSessions, range, clock))

C7_WindowsNested ==
  /\ FilteredIds("week") \subseteq FilteredIds("month")
  /\ FilteredIds("month") \subseteq FilteredIds("quarter")
  /\ FilteredIds("quarter") \subseteq FilteredIds("year")
  /\ FilteredIds("year") \subseteq FilteredIds("all")
  /\ FilteredCount("week") <= FilteredCount("month")
  /\ FilteredCount("month") <= FilteredCount("quarter")
  /\ FilteredCount("quarter") <= FilteredCount("year")
  /\ FilteredCount("year") <= FilteredCount("all")

\* on 29 February the year filter is selected and shows a session that the
\* quarter filter drops
C7_Witness ==
  /\ chartMounted /\ timeRange = "year"
  /\ clock.month = 1 /\ clock.date = 29
  /\ Len(filteredSessions) = FilteredCount("year")
  /\ FilteredCount("quarter") < FilteredCount("year")

\* ------------------------------------------------------------------------
\* C8: on the Charts page the four displayed aggregates are those of the
\* filtered session set, the one the chart plots.
\* ------------------------------------------------------------------------
C8_StatsOverFiltered ==
  chartMounted =>
    /\ totalProfit(cSessions) = totalProfit(filteredSessions)
    /\ totalSessions(cSessions) = totalSessions(filteredSessions)
    /\ totalHours(cSessions) = totalHours(filteredSessions)
    /\ hourlyRate(cSessions) = hourlyRate(filteredSessions)

\* ------------------------------------------------------------------------
\* C9: the series has one point per filtered session, in ascending
\* session_date order, and its k-th value is the sum of the profits of the
\* first k sessions in that order.
\* ------------------------------------------------------------------------
C9_SeriesIsRunningSum ==
  chartMounted =>
    LET series == calculateChartData(filteredSessions, clock)
        n      == Len(filteredSessions)
        Prefix(p, k) == [i \in 1..k |-> filteredSessions[p[i]]]
    IN  /\ Len(series) = n
        /\ n > 0 =>
             \E p \in Permutations(1..n) :
               /\ \A k \in 1..(n - 1) :
                    SessionDay(filteredSessions[p[k]])
                      <= SessionDay(filteredSessions[p[k + 1]])
               /\ \A k \in 1..n :
                    series[k].data = Decimal(SumProfitCents(Prefix(p, k)))

\* ------------------------------------------------------------------------
\* C10: the series of a session collection has as many points as the
\* collection has sessions, and its last running total is the total_profit
\* the aggregate reports for the same sessions.
\* ------------------------------------------------------------------------
C10_LastPointIsTotal ==
  chartMounted /\ timeRange = "all" =>
    LET series == calculateChartData(filteredSessions, clock)
    IN  /\ Len(series) = Len(cSessions)
        /\ series[Len(series)].data = totalProfit(cSessions)

\* ------------------------------------------------------------------------
\* Reference order and running totals of the chart, in JavaScript numbers
\* ------------------------------------------------------------------------
\* position of the i-th session of ss when ss is ordered by session_date and
\* sessions of one date stay in their order in ss
StableRank(ss, i) ==
  1 + Cardinality({ j \in DOMAIN ss :
                      \/ SessionDay(ss[j]) < SessionDay(ss[i])
                      \/ SessionDay(ss[j]) = SessionDay(ss[i]) /\ j < i })

RECURSIVE RunningTotal(_)
\* the profits of ss added from the first to the last
RunningTotal(ss) ==
  IF ss = <<>> THEN Zero
  ELSE Add(RunningTotal(SubSeq(ss, 1, Len(ss) - 1)), calculateProfit(ss[Len(ss)]))

\* the running total after the i-th session of ss in the stable date order
TotalAfter(ss, i) ==
  LET upTo == { j \in DOMAIN ss : StableRank(ss, j) <= StableRank(ss, i) }
      prefix == [k \in 1..Cardinality(upTo) |->
                   ss[CHOOSE j \in upTo : StableRank(ss, j) = k]]
  IN  RunningTotal(prefix)

\* ------------------------------------------------------------------------
\* C11: the chart has one point per filtered session; sessions of the same
\* session_date appear in their input order, their points have the same
\* label, and each point carries the running total after its session.
\* ------------------------------------------------------------------------
C11_SameDayStable ==
  chartMounted =>
    LET fs     == filteredSessions
        series == calculateChartData(fs, clock)
    IN  /\ Len(series) = Len(fs)
        /\ \A i \in DOMAIN fs :
             series[StableRank(fs, i)].data = TotalAfter(fs, i)
        /\ \A i, j \in DOMAIN fs :
             fs[i].session_date = fs[j].session_date =>
               series[StableRank(fs, i)].label = series[StableRank(fs, j)].label

\* the chart plots two sessions of one day that were received in an order
\* other than that of their ids, with different totals at their two points
C11_Witness ==
  /\ chartMounted
  /\ \E i, j \in DOMAIN filteredSessions :
       LET series == calculateChartData(filteredSessions, clock)
       IN  /\ i < j
           /\ filteredSessions[i].id > filteredSessions[j].id
           /\ filteredSessions[i].session_date = filteredSessions[j].session_date
           /\ StableRank(filteredSessions, j) = StableRank(filteredSessions, i) + 1
           /\ series[StableRank(filteredSessions, i)].label
                = series[StableRank(filteredSessions, j)].label
           /\ series[StableRank(filteredSessions, i)].data
                # series[StableRank(filteredSessions, j)].data

\* ------------------------------------------------------------------------
\* C12: a page that has loaded and holds no session shows total profit 0,
\* 0 sessions, 0 hours and the zero hourly rate, the series of no session
\* is empty, the page shows its empty state and not a chart, and the only
\* error it can show is the one the API reported.
\* ------------------------------------------------------------------------
C12_EmptyIsSafe ==
  /\ PageLoaded /\ Len(PageSessions) = 0 =>
       /\ totalProfit(PageSessions) = Zero
       /\ totalSessions(PageSessions) = 0
       /\ totalHours(PageSessions) = Zero
       /\ hourlyRate(PageSessions) = ZeroRate
       /\ calculateChartData(PageSessions, clock) = <<>>
       /\ PageView = "empty-state"
       /\ PageError \in {"", LoadError}
  /\ Len(filteredSessions) = 0 => calculateChartData(filteredSessions, clock) = <<>>

\* the Charts page has received the empty list of a user without sessions
C12_Witness ==
  /\ route = "charts" /\ ~cLoading /\ cError = ""
  /\ db = <<>> /\ cSessions = <<>>
  /\ ChartsView = "empty-state"
  /\ hourlyRate(cSessions) = ZeroRate

\* ------------------------------------------------------------------------
\* Hours: x * 60 in JavaScript numbers, and the rounding error allowed to a
\* sum of hours, 2^-32 minutes, in units of 1 / (Den * 2^Q) hours
\* ------------------------------------------------------------------------
Times60(x) == Round(60 * x.n, 60 * x.dev)

HoursTolerance == 5 * (2 ^ 27)

RECURSIVE SumProfitValues(_)
SumProfitValues(ss) ==
  IF ss = <<>> THEN 0
  ELSE ProfitOrZero(Head(ss)).n + SumProfitValues(Tail(ss))

DecimalProfitSum(ss) == [n |-> SumProfitValues(ss), dev |-> 0]

\* ------------------------------------------------------------------------
\* C14: for every split of the session list a page holds into a first and a
\* second part, total_profit of the list is total_profit of the first part
\* plus total_profit of the second part, and each of the three equals the
\* sum of the profit values of its sessions.
\* ------------------------------------------------------------------------
C14_SplitAdditive ==
  \A k \in 0..Len(PageSessions) :
    LET first  == SubSeq(PageSessions, 1, k)
        second == SubSeq(PageSessions, k + 1, Len(PageSessions))
    IN  /\ totalProfit(PageSessions)
             = Add(totalProfit(first), totalProfit(second))
        /\ totalProfit(PageSessions) = DecimalProfitSum(PageSessions)
        /\ totalProfit(first) = DecimalProfitSum(first)
        /\ totalProfit(second) = DecimalProfitSum(second)

\* the exact cents of the running total after the i-th session of ss in
\* the stable date order
ExactCentsAfter(ss, i) ==
  LET upTo == { j \in DOMAIN ss : StableRank(ss, j) <= StableRank(ss, i) }
      RECURSIVE Sum(_)
      Sum(js) == IF js = {} THEN 0
                 ELSE LET j == CHOOSE x \in js : TRUE
                      IN  ExactProfitCents(ss[j]) + Sum(js \ {j})
  IN  Sum(upTo)

\* ------------------------------------------------------------------------
\* C15: with amounts of two decimals, the profit of every session a page
\* holds, the page's total_profit and every running total of the chart
\* equal the exact decimal result.
\* ------------------------------------------------------------------------
C15_MoneyExact ==
  /\ \A i \in DOMAIN PageSessions :
       calculateProfit(PageSessions[i])
         = Decimal(ExactProfitCents(PageSessions[i]))
  /\ totalProfit(PageSessions) = DecimalProfitSum(PageSessions)
  /\ chartMounted =>
       \A i \in DOMAIN filteredSessions :
         calculateChartData(filteredSessions, clock)
             [StableRank(filteredSessions, i)].data
           = Decimal(ExactCentsAfter(filteredSessions, i))

\* ------------------------------------------------------------------------
\* C16: a step that delivers the data of a getAll leaves the page with
\* exactly that data, in that order, also after the chart is built from it;
\* a step in which no request is delivered and no page is mounted (a
\* time-range click with its filtering, aggregation and rendering) leaves
\* the sessions of the pages and of the server as they were.
\* ------------------------------------------------------------------------
C16_ReadOnly ==
  [][ /\ (net' = net /\ route' = route) =>
           /\ cSessions' = cSessions
           /\ dSessions' = dSessions
           /\ db' = db
      /\ \A k \in DOMAIN net :
           ( /\ Answered(k, {"getAll"})
             /\ net[k].response.error = ""
             /\ route' = route
             /\ net' = RemoveAt(net, k) ) =>
               /\ PageSessions' = net[k].response.data
               /\ db' = db
    ]_vars

\* the chart shows all sessions of a list that is not in date order, and
\* the page still holds the list in the order of the server
C16_Witness ==
  /\ chartMounted /\ timeRange = "all"
  /\ Len(cSessions) > 1
  /\ SortByDate(cSessions) # cSessions
  /\ filteredSessions = cSessions
  /\ cSessions = db
  /\ Len(calculateChartData(filteredSessions, clock)) = Len(cSessions)

\* ------------------------------------------------------------------------
\* Requests of the Dashboard
\* ------------------------------------------------------------------------
\* the getAll requests in flight that the server has not answered yet
UnansweredGetAll(requests) ==
  Len(SelectSeq(requests,
                LAMBDA r : r.kind = "getAll" /\ r.stage = "sent"))

\* the four cards of the Dashboard for a session list
Cards(ss) ==
  [total_profit |-> totalProfit(ss), total_sessions |-> totalSessions(ss),
   total_hours |-> totalHours(ss), hourly_rate |-> hourlyRate(ss)]

\* ------------------------------------------------------------------------
\* C17: the step in which the Dashboard receives the success response of a
\* create, update or delete sends a new getAll (the page is loading and one
\* more getAll awaits the server); and the step in which a getAll of the
\* Dashboard completes with data leaves the page showing exactly that data
\* and the four cards computed from it.
\* ------------------------------------------------------------------------
C17_ReloadAfterMutation ==
  [][ \A k \in DOMAIN net :
        /\ ( /\ Answered(k, {"create", "update", "delete"})
             /\ net[k].response.error = ""
             /\ SubmitComplete(k) \/ DeleteComplete(k) ) =>
               /\ UnansweredGetAll(net') = UnansweredGetAll(net) + 1
               /\ net'[Len(net')].kind = "getAll"
               /\ net'[Len(net')].stage = "sent"
               /\ dLoading'
        /\ ( /\ Answered(k, {"getAll"})
             /\ net[k].response.error = ""
             /\ DashLoadComplete(k) ) =>
               /\ dSessions' = net[k].response.data
               /\ DashboardView' \in {"table", "empty-state"}
               /\ Cards(dSessions') = Cards(net[k].response.data)
    ]_vars

\* the Dashboard shows, after its reload, a session that only a create or
\* an update from the form can have produced
C17_Witness ==
  /\ route = "dashboard" /\ ~dLoading /\ ~showForm /\ net = <<>>
  /\ dSessions = db
  /\ \E s \in FormInputs : dSessions = <<Stored(1, s)>>

\* ------------------------------------------------------------------------
\* C18: the session list of the Dashboard starts empty, and whenever it
\* changes it becomes exactly the data of one getAll response that
\* completes in that step.
\* ------------------------------------------------------------------------
C18_SingleSnapshot ==
  /\ dSessions = <<>>
  /\ [][ dSessions' # dSessions =>
           \E k \in DOMAIN net :
             /\ Answered(k, {"getAll"})
             /\ net[k].response.error = ""
             /\ dSessions' = net[k].response.data
             /\ net' = RemoveAt(net, k) \/ net' = Detach(RemoveAt(net, k))
       ]_vars

\* the Dashboard shows the data of one response while the response of a
\* later getAll, with other data, has not been delivered yet
C18_Witness ==
  /\ route = "dashboard" /\ ~dLoading
  /\ dSessions # <<>>
  /\ \E k \in DOMAIN net :
       /\ Answered(k, {"getAll"})
       /\ net[k].response.error = ""
       /\ net[k].response.data # dSessions
       /\ net[k].response.data # <<>>

\* A CSV reader (RFC 4180): rows of cells.  A cell that starts with a double
\* quote runs to its closing quote, a doubled quote inside standing for one;
\* a comma ends a cell and a newline ends a row outside quotes only.
ReadChar(st, c) ==
  IF st.mode = "quoted"
  THEN IF c = Quote THEN [st EXCEPT !.mode = "closing"]
       ELSE [st EXCEPT !.cell = Append(@, c)]
  ELSE IF st.mode = "closing" /\ c = Quote
  THEN [st EXCEPT !.cell = Append(@, c), !.mode = "quoted"]
  ELSE IF c = Quote /\ st.cell = <<>>
  THEN [st EXCEPT !.mode = "quoted", !.open = TRUE]
  ELSE IF c = Comma
  THEN [st EXCEPT !.row = Append(@, st.cell), !.cell = <<>>,
                  !.mode = "plain", !.open = TRUE]
  ELSE IF c = Newline
  THEN [rows |-> Append(st.rows, Append(st.row, st.cell)), row |-> <<>>,
        cell |-> <<>>, mode |-> "plain", open |-> FALSE]
  ELSE [st EXCEPT !.cell = Append(@, c), !.mode = "plain", !.open = TRUE]

\* the reader's state after text[lo..hi], read from state st; the halves
\* are read one after the other (the test on the first half's state makes
\* it be evaluated before the second half is entered)
RECURSIVE ReadFrom(_, _, _, _)
ReadFrom(text, lo, hi, st) ==
  IF lo > hi THEN st
  ELSE IF lo = hi THEN ReadChar(st, text[lo])
  ELSE LET mid == (lo + hi) \div 2
           half == ReadFrom(text, lo, mid, st)
       IN  IF half.mode = "quoted" THEN ReadFrom(text, mid + 1, hi, half)
           ELSE ReadFrom(text, mid + 1, hi, half)

ReadCSV(text) ==
  LET st == ReadFrom(text, 1, Len(text),
                     [rows |-> <<>>, row |-> <<>>, cell |-> <<>>,
                      mode |-> "plain", open |-> FALSE])
  IN  IF st.open THEN Append(st.rows, Append(st.row, st.cell)) ELSE st.rows

RECURSIVE SplitAt(_, _)
SplitAt(text, c) ==
  IF \A i \in DOMAIN text : text[i] # c THEN <<text>>
  ELSE LET i == CHOOSE j \in DOMAIN text :
                  text[j] = c /\ \A h \in 1..(j - 1) : text[h] # c
       IN  <<SubSeq(text, 1, i - 1)>>
             \o SplitAt(SubSeq(text, i + 1, Len(text)), c)

RECURSIVE DigitsValue(_)
DigitsValue(text) ==
  IF text = <<>> THEN 0
  ELSE 10 * DigitsValue(SubSeq(text, 1, Len(text) - 1))
         + (CHOOSE d \in 0..9 : Digit(d) = text[Len(text)])

\* the number of hundredths a cell with two fractional digits stands for,
\* as a one-element sequence (empty when the cell is not such a number)
HundredthsOf(cell) ==
  LET negative == cell # <<>> /\ Head(cell) = "-"
      unsigned == IF negative THEN Tail(cell) ELSE cell
      n == Len(unsigned)
      digits == { Digit(d) : d \in 0..9 }
  IN  IF /\ n >= 4
         /\ unsigned[n - 2] = "."
         /\ \A i \in (1..n) \ {n - 2} : unsigned[i] \in digits
      THEN LET whole == DigitsValue(SubSeq(unsigned, 1, n - 3))
               cents == DigitsValue(SubSeq(unsigned, n - 1, n))
           IN  IF negative THEN <<-(100 * whole + cents)>>
               ELSE <<100 * whole + cents>>
      ELSE <<>>

\* the sessions of the downloaded file's window
Exported == ExportFilter(db, download[1].range, clock)

\* C19: the downloaded CSV, read back as CSV, is the header row followed by
\* exactly one row of seven cells per exported session, in order; the row's
\* Profit/Loss is cash_out - (buy_in + rebuy) of its session and its Notes
\* cell is the session's notes, commas, quotes and newlines included
C19_RoundTripShape ==
  download # <<>> =>
    LET rows == ReadCSV(download[1].content)
    IN  /\ Len(rows) = 1 + Len(Exported)
        /\ rows[1] = SplitAt(csvHeader, Comma)
        /\ \A i \in DOMAIN Exported :
             /\ Len(rows[i + 1]) = 7
             /\ HundredthsOf(rows[i + 1][6])
                  = << Exported[i].cash_out_amount
                         - (Exported[i].buy_in_amount
                              + Exported[i].rebuy_amount) >>
             /\ rows[i + 1][7] = Exported[i].notes

\* three sessions were exported: one with a comma in its notes, one with a
\* loss and one with quotes in its notes
C19_Witness ==
  /\ download # <<>>
  /\ Len(Exported) = 3
  /\ \E i \in DOMAIN Exported : \E j \in DOMAIN Exported[i].notes :
       Exported[i].notes[j] = Comma
  /\ \E i \in DOMAIN Exported : profit(Exported[i]) < 0
  /\ \E i \in DOMAIN Exported : \E j \in DOMAIN Exported[i].notes :
       Exported[i].notes[j] = Quote

\* C20: in every state of the auth store isAuthenticated is true iff the
\* token is not null, and localStorage 'token' is the store's token (absent
\* when it is null); every step that calls logout leaves the user null, and
\* every step that calls updateUser sets the user and leaves the token,
\* isAuthenticated and localStorage as they were
C20_AuthStoreConsistent ==
  /\ [](/\ authStore.isAuthenticated <=> authStore.token # <<>>
        /\ storage = authStore.token)
  /\ [][ /\ ( \/ handleLogout
              \/ \E k \in DOMAIN net :
                   /\ GetMeComplete(k)
                   /\ net[k].response.data = <<>> ) =>
                authStore'.user = <<>>
         /\ \A k \in DOMAIN net :
              ( /\ GetMeComplete(k) \/ ConsentComplete(k)
                /\ net[k].response.data # <<>> ) =>
                  /\ authStore'.user = net[k].response.data
                  /\ authStore'.token = authStore.token
                  /\ authStore'.isAuthenticated = authStore.isAuthenticated
                  /\ storage' = storage
       ]_vars

\* after a logout, the answer to a request made before it has set the
\* user: the store holds a user and no token
C20_Witness ==
  /\ authStore.user # <<>>
  /\ authStore.token = <<>>
  /\ ~authStore.isAuthenticated
  /\ storage = <<>>

Opposite(theme) == IF theme = "light" THEN "dark" ELSE "light"

\* C21: in every state that set() and toggle() calls lead to, the theme a
\* call of themeStore.toggle() sets is the opposite of the theme the store
\* has (a call that leaves the theme as it is changes no variable, so the
\* property is stated on the state before the call)
C21_ToggleSwitches == toggleValue = Opposite(themeValue)

\* C22: every set() or toggle() that changes the theme leaves localStorage
\* 'theme' and the document's data-theme equal to the store's new value, so
\* that a store created afterwards starts with that theme
C22_ThemePersisted ==
  [][ ( /\ callToggle \/ \E theme \in Themes : callSet(theme)
        /\ themeValue' # themeValue ) =>
          /\ themeItem' = <<themeValue'>>
          /\ dataTheme' = <<themeValue'>>
          /\ OrLight(themeItem') = themeValue' ]_vars

\* C23: a page loaded with a token asks /auth/me and is not ready before
\* the answer; when the answer is the user, the user is stored and the
\* token and isAuthenticated stay; when it is an error, the token is removed
\* from the store and from localStorage and nothing is alerted; either way
\* the app is ready after the answer, and whenever it is ready an
\* authenticated store holds a user
C23_TokenValidatedOnMount ==
  /\ [](/\ ~isReady =>
             /\ authStore.isAuthenticated
             /\ \E k \in DOMAIN net : net[k].kind = "getMe"
        /\ (isReady /\ authStore.isAuthenticated) => authStore.user # <<>>)
  /\ [][ /\ (pageLoad /\ Truthy(storage)) =>
              /\ ~isReady'
              /\ net' = <<Request("getMe", "App", <<>>)>>
         /\ \A k \in DOMAIN net : GetMeComplete(k) =>
              /\ isReady'
              /\ alerted' = alerted
              /\ IF net[k].response.data # <<>>
                 THEN /\ authStore'.user = net[k].response.data
                      /\ authStore'.isAuthenticated
                      /\ authStore'.token = authStore.token
                      /\ storage' = storage
                 ELSE /\ authStore' = [user |-> <<>>, token |-> <<>>,
                                       isAuthenticated |-> FALSE]
                      /\ storage' = <<>>
       ]_vars

\* the token found at page load was validated: the app is ready, nothing
\* is in flight and the store holds the user of that token
C23_Witness ==
  /\ isReady /\ net = <<>>
  /\ authStore.isAuthenticated /\ authStore.user # <<>>
  /\ storage = <<"token-1">>

\* the form holds changes: its fields are not those it was opened with
formDirty == showForm /\ fields # FormInitial(editingSession)

\* C24: the form is closed by 'cancel' (the Cancel button, the close button,
\* an overlay click) only when no field was changed since it was opened
C24_NoSilentDiscard == [][ handleCloseForm => ~formDirty ]_vars

\* the requests of one kind in flight
InFlight(requests, kind) ==
  Cardinality({ k \in DOMAIN requests : requests[k].kind = kind })

\* C25: a dismissed confirmation issues no delete request; a refused delete
\* is alerted and issues no reload, and leaves the list, the cards and the
\* loading flag as they were; a delete request enters only by a confirmed
\* click, and a reload for a delete only after a delete that succeeded
C25_DeleteOnlyConfirmedAndSucceeded ==
  [][ /\ \A i \in DOMAIN dSessions : handleDelete(i, FALSE) =>
           /\ InFlight(net', "delete") = InFlight(net, "delete")
           /\ dSessions' = dSessions
      /\ InFlight(net', "delete") > InFlight(net, "delete") =>
           \E i \in DOMAIN dSessions : handleDelete(i, TRUE)
      /\ \A k \in DOMAIN net :
           ( /\ DeleteComplete(k)
             /\ net[k].response.error # "" ) =>
               /\ alerted' = net[k].response.error
               /\ InFlight(net', "getAll") = InFlight(net, "getAll")
               /\ dSessions' = dSessions
               /\ Cards(dSessions') = Cards(dSessions)
               /\ DashboardView' = DashboardView
      /\ ( /\ Len(net') > 0
           /\ net'[Len(net')].from = "handleDelete"
           /\ net'[Len(net')].kind = "getAll"
           /\ net'[Len(net')].stage = "sent"
           /\ InFlight(net', "getAll") > InFlight(net, "getAll") ) =>
             \E k \in DOMAIN net :
               /\ Answered(k, {"delete"})
               /\ net[k].response.error = ""
               /\ DeleteComplete(k)
    ]_vars

\* a delete was refused: the error was alerted, nothing is in flight and the
\* session is still displayed and still stored
C25_Witness ==
  /\ route = "dashboard" /\ alerted = DeleteError
  /\ net = <<>> /\ ~dLoading
  /\ dSessions # <<>> /\ dSessions = db

\* a step in which a page starts a load: it sends a getAll, or it is mounted
StartsLoad ==
  \/ UnansweredGetAll(net') > UnansweredGetAll(net)
  \/ route' # route

\* C26: when a getAll returns an error to the Dashboard or to the Charts
\* page, the page shows the error message, its loading flag becomes false
\* and the sessions it held (and the cards computed from them) are left as
\* they were; the step that starts the next load clears the message
C26_LoadErrorShownAndCleared ==
  [][ /\ \A k \in DOMAIN net :
           ( /\ DashLoadComplete(k)
             /\ net[k].response.error # "" ) =>
               /\ PageError' = net[k].response.error
               /\ PageLoaded'
               /\ dSessions' = dSessions
               /\ Cards(dSessions') = Cards(dSessions)
      /\ \A k \in DOMAIN net :
           ( /\ ChartsLoadComplete(k)
             /\ net[k].response.error # "" ) =>
               /\ PageError' = net[k].response.error
               /\ PageLoaded'
               /\ cSessions' = cSessions
      /\ StartsLoad => PageError' = ""
    ]_vars

\* a reload was refused: the Dashboard shows the error and still holds the
\* sessions of the load before it, while the store has since changed
C26_Witness ==
  /\ route = "dashboard" /\ dError = LoadError /\ ~dLoading
  /\ net = <<>> /\ dSessions # <<>> /\ dSessions # db

\* the Charts page was refused its load and shows the error
C26_ChartsRefused ==
  route = "charts" /\ cError = LoadError /\ ~cLoading /\ net = <<>>

\* the requests of the open form: the create or update requests whose
\* form is still mounted
OwnRequests ==
  { k \in DOMAIN net : net[k].kind \in {"create", "update"} /\ net[k].live }

\* C27: the form dispatches 'save' (the Dashboard's reload starts) exactly
\* when its create or update returned without error; on an error the text
\* is shown, the form stays open and keeps the entered values; the form's
\* loading flag is true exactly while its request is pending; and the
\* request is an update of the session the form was opened with if there
\* is one, a create otherwise
C27_SaveIffAccepted ==
  /\ [] ( /\ OwnRequests # {} => showForm
          /\ showForm => (fLoading <=> OwnRequests # {})
          /\ ~showForm => ~fLoading )
  /\ [][ /\ \A k \in DOMAIN net :
              SubmitComplete(k) =>
                /\ ( InFlight(net', "getAll") > InFlight(net, "getAll")
                      <=> net[k].response.error = "" )
                /\ ( net[k].live /\ net[k].response.error # "" ) =>
                      /\ fError' = net[k].response.error
                      /\ showForm' /\ ~fLoading'
                      /\ fields' = fields
                      /\ editingSession' = editingSession
         /\ handleSubmit =>
              LET sent == net'[Len(net')]
              IN  /\ Len(net') = Len(net) + 1
                  /\ sent.kind \in {"create", "update"}
                  /\ sent.kind = "update" <=> editingSession # <<>>
                  /\ sent.kind = "update" =>
                        sent.arg[1].id = editingSession[1].id
                  /\ sent.arg[1] = Stored(sent.arg[1].id, fields[1])
         /\ ( \/ InFlight(net', "create") > InFlight(net, "create")
              \/ InFlight(net', "update") > InFlight(net, "update") ) =>
              handleSubmit
       ]_vars

\* an edit was refused: the form is still open on the session, shows the
\* error, is no longer loading and holds the values that were entered
C27_Witness ==
  /\ showForm /\ editingSession # <<>> /\ fError = CreateError
  /\ ~fLoading /\ net = <<>>
  /\ fields # FormInitial(editingSession)

\* C28: once every request of the Dashboard has completed and the last
\* load was not refused, the displayed sessions are the response to the
\* getAll issued last, which is the store as it then is (every change of
\* the store is followed by a getAll issued after it); a response that
\* arrives out of order leaves no older snapshot displayed
C28_LatestLoadDisplayed ==
  ( route = "dashboard" /\ net = <<>> /\ dError = "" ) => dSessions = db

\* C29: on the Dashboard, loading is true whenever a getAll issued by
\* loadSessions has not yet returned, so that the session table is not
\* rendered and the export button is disabled while a load is pending
C29_LoadingWhileLoadPending ==
  ( route = "dashboard" /\ InFlight(net, "getAll") > 0 ) =>
    /\ dLoading
    /\ DashboardView # "table"

\* the open form has dispatched 'save': its create or update returned
\* success, and the reload that handleSave awaits before it closes the
\* form has not returned yet
FormSaved ==
  \E k \in DOMAIN net :
    net[k].kind = "getAll" /\ net[k].from = "handleSave" /\ net[k].live

\* C30: a form instance whose create or update has returned success issues
\* no further create or update: no request of the open form is in flight
\* once that form has dispatched 'save'
C30_AtMostOneSave == ~(FormSaved /\ OwnRequests # {})

====
